---- MODULE Spec2Model ----
(***************************************************************************)
(* A model of main.py: the Discord message handler on_message, the         *)
(* completion client call_ai_api, the audio client get_audio_from_text     *)
(* and the snapshot builder get_user_info.                                 *)
(*                                                                         *)
(* Text is a sequence of characters, each a one-character string (the      *)
(* backquote, which a TLA+ string cannot hold, is written "BQ").  Every    *)
(* awaited call of the handler (a send, the member fetch, the two HTTP     *)
(* calls, the command invocation) is one action; the synchronous code      *)
(* between two awaits is part of the action of the await before it.        *)
(***************************************************************************)
EXTENDS Integers, Sequences, FiniteSets, TLC

\* ------------------------------------------------------------------ bounds
\* Longest response, in chunks of ChunkSize, that the remote model returns.
MaxChunks == 2
\* Most lines of a `code` field.
MaxCodeLines == 3

\* ------------------------------------------------------- program constants
MaxMessageLen == 2000
ChunkSize == 1990
max_url_len == 2000
UrlBuffer == 50
HttpOk == 200

\* --------------------------------------------------------- text primitives
Whitespace == {" ", "\n", "\t"}
Backquote == "BQ"

MinOf(S) == CHOOSE i \in S : \A j \in S : i <= j
MaxOf(S) == CHOOSE i \in S : \A j \in S : i >= j

\* Python s[:n]
Prefix(s, n) == SubSeq(s, 1, IF n > Len(s) THEN Len(s) ELSE n)

\* Python s[n:]
Suffix(s, n) == SubSeq(s, n + 1, Len(s))

\* Python s.startswith(p)
StartsWith(s, p) == Len(s) >= Len(p) /\ SubSeq(s, 1, Len(p)) = p

\* Python s.strip()
Strip(s) ==
    LET keep == {i \in 1..Len(s) : s[i] \notin Whitespace}
    IN  IF keep = {} THEN <<>> ELSE SubSeq(s, MinOf(keep), MaxOf(keep))

\* Python s.splitlines(), for text whose only line boundary is "\n"
RECURSIVE SplitLines(_)
SplitLines(s) ==
    IF s = <<>> THEN <<>>
    ELSE LET nl == {i \in 1..Len(s) : s[i] = "\n"}
         IN  IF nl = {} THEN <<s>>
             ELSE <<SubSeq(s, 1, MinOf(nl) - 1)>> \o SplitLines(Suffix(s, MinOf(nl)))

\* Python sep.join(lines)
RECURSIVE Join(_, _)
Join(lines, sep) ==
    IF lines = <<>> THEN <<>>
    ELSE IF Len(lines) = 1 THEN lines[1]
    ELSE lines[1] \o sep \o Join(Tail(lines), sep)

\* Python s.replace(old, '', 1) for a one-character token old
RemoveFirst(s, old) ==
    LET at == {i \in 1..Len(s) : s[i] = old}
    IN  IF at = {} THEN s
        ELSE SubSeq(s, 1, MinOf(at) - 1) \o Suffix(s, MinOf(at))

\* Python s.lower(), on the letters the inputs use
LowerChar(c) ==
    CASE c = "M" -> "m" [] c = "E" -> "e" [] c = "T" -> "t" [] c = "A" -> "a"
      [] c = "R" -> "r" [] c = "U" -> "u" [] c = "N" -> "n" [] c = "X" -> "x"
      [] OTHER -> c

Lower(s) == [i \in 1..Len(s) |-> LowerChar(s[i])]

\* urllib.parse.quote(c, safe=''): an unreserved character stays, any other
\* ASCII character becomes a percent sign and its two hexadecimal digits
\* (written "H" for a character the inputs do not use)
Unreserved == {"a", "b", "c", "h", "i", "p", "x", "y", "1", ".", "-", "_", "~"}

QuoteChar(c) ==
    CASE c \in Unreserved -> <<c>>
      [] c = " "  -> <<"%", "2", "0">>
      [] c = "\n" -> <<"%", "0", "A">>
      [] c = "\t" -> <<"%", "0", "9">>
      [] c = "="  -> <<"%", "3", "D">>
      [] c = Backquote -> <<"%", "6", "0">>
      [] OTHER    -> <<"%", "H", "H">>

\* quote(text, safe=''), by halves so that long text needs little depth
RECURSIVE Quote(_)
Quote(s) ==
    IF s = <<>> THEN <<>>
    ELSE IF Len(s) = 1 THEN QuoteChar(s[1])
    ELSE Quote(SubSeq(s, 1, Len(s) \div 2)) \o Quote(Suffix(s, Len(s) \div 2))

\* ------------------------------------------------------------ get_user_info
GuildChannelKinds == {"text"}

EmptyInfo ==
    [empty |-> TRUE, isOwner |-> FALSE, userTopRolePosition |-> -1,
     botTopRolePosition |-> -1, userGuildPermissions |-> {}]

\* get_role_pos: @everyone, whose id is the guild's, counts as -1
get_role_pos(role, guildId) ==
    IF role.id # guildId THEN role.position ELSE -1

\* member: the author object, channel: the channel's kind
get_user_info(member, channel) ==
    IF member.kind # "member" THEN EmptyInfo
    ELSE IF channel \notin GuildChannelKinds THEN EmptyInfo
    ELSE [empty |-> FALSE,
          isOwner |-> member.id = member.guild.owner_id,
          userTopRolePosition |-> get_role_pos(member.top_role, member.guild.id),
          botTopRolePosition |-> get_role_pos(member.guild.bot_top_role, member.guild.id),
          userGuildPermissions |-> member.guild_permissions]

\* ------------------------------------------------------------- call_ai_api
\* A JSON value of the inner payload: t is its JSON type, s its string value.
StrV(x) == [t |-> "str", s |-> x]
NumV == [t |-> "num", s |-> <<>>]
NullV == [t |-> "null", s |-> <<>>]

ValidTypes == {"text", "code", "audio", "rejection"}

\* What json.loads gives for message.content: json is "invalid" when the text
\* is no JSON, else the JSON type of the value; keys are the object's keys.
NoDoc ==
    [json |-> "invalid", keys |-> {}, response |-> NullV, feedback |-> NullV,
     type |-> [t |-> "null", s |-> ""], code |-> NullV]

NoneResult == [kind |-> "None", payload |-> NoDoc, exc |-> "none"]
Returned(p) == [kind |-> "payload", payload |-> p, exc |-> "none"]
Raised(e) == [kind |-> "raise", payload |-> NoDoc, exc |-> e]

\* lines 255-280: the validation of the parsed content
ValidateContentNoStrip(parsed) ==
    IF /\ parsed.json = "object"
       /\ "response" \in parsed.keys /\ parsed.response.t = "str"
       /\ "feedback" \in parsed.keys /\ parsed.feedback.t = "str"
       /\ "type" \in parsed.keys /\ parsed.type.t = "str"
       /\ parsed.type.s \in ValidTypes
    THEN IF parsed.type.s = "code"
         THEN IF \/ "code" \notin parsed.keys
                 \/ parsed.code.t # "str"
              THEN NoneResult
              ELSE Returned(parsed)
         ELSE IF "code" \in parsed.keys
              THEN Returned([parsed EXCEPT !.keys = @ \ {"code"}, !.code = NullV])
              ELSE Returned(parsed)
    ELSE NoneResult

\* A validation that returns a payload of another type with its code field
ValidateContentKeepCode(parsed) ==
    IF /\ parsed.json = "object"
       /\ "response" \in parsed.keys /\ parsed.response.t = "str"
       /\ "feedback" \in parsed.keys /\ parsed.feedback.t = "str"
       /\ "type" \in parsed.keys /\ parsed.type.t = "str"
       /\ parsed.type.s \in ValidTypes
    THEN IF parsed.type.s = "code"
         THEN IF \/ "code" \notin parsed.keys
                 \/ parsed.code.t # "str"
                 \/ Strip(parsed.code.s) = <<>>
              THEN NoneResult
              ELSE Returned(parsed)
         ELSE Returned(parsed)
    ELSE NoneResult

ValidateContent(parsed) ==
    IF /\ parsed.json = "object"
       /\ "response" \in parsed.keys /\ parsed.response.t = "str"
       /\ "feedback" \in parsed.keys /\ parsed.feedback.t = "str"
       /\ "type" \in parsed.keys /\ parsed.type.t = "str"
       /\ parsed.type.s \in ValidTypes
    THEN IF parsed.type.s = "code"
         THEN IF \/ "code" \notin parsed.keys
                 \/ parsed.code.t # "str"
                 \/ Strip(parsed.code.s) = <<>>
              THEN NoneResult
              ELSE Returned(parsed)
         ELSE IF "code" \in parsed.keys
              THEN Returned([parsed EXCEPT !.keys = @ \ {"code"}, !.code = NullV])
              ELSE Returned(parsed)
    ELSE NoneResult

\* lines 243-292: the body of the inner try, on the response text of a 200.
\* wrapper.json: what json.loads gives for the body; choices: the list under
\* "choices"; a choice's message is "missing", "null" or "object", its
\* content "missing", "null", "empty", "string" or "number" (a truthy
\* non-string), and doc the content parsed.
ParseWrapper(wrapper) ==
    IF wrapper.json = "invalid" THEN NoneResult           \* JSONDecodeError, 290
    ELSE IF wrapper.json = "number" THEN Raised("TypeError")  \* "choices" in 5
    ELSE IF wrapper.json # "object" THEN NoneResult       \* "choices" in [..]
    ELSE IF ~(wrapper.hasChoices /\ Len(wrapper.choices) > 0) THEN NoneResult
    ELSE LET choice == wrapper.choices[1]
         IN  IF ~choice.isObject THEN Raised("AttributeError")
             ELSE IF choice.message = "null" THEN Raised("AttributeError")
             ELSE IF choice.message = "missing" THEN NoneResult
             ELSE IF choice.content \in {"missing", "null", "empty"} THEN NoneResult
             ELSE IF choice.content = "number" THEN Raised("TypeError")
             ELSE IF choice.doc.json = "invalid" THEN NoneResult  \* 281
             ELSE ValidateContent(choice.doc)

\* lines 234-305: the try and its handlers.  http.exc is what session.post
\* or response.text() raised ("none": nothing).
TryBody(http) ==
    IF http.exc # "none" THEN Raised(http.exc)
    ELSE IF http.status = HttpOk THEN ParseWrapper(http.body)
    ELSE NoneResult

call_ai_api_uncaught(http) == TryBody(http)

call_ai_api(http) ==
    LET r == TryBody(http)
    IN  IF r.kind = "raise" THEN NoneResult   \* 296, 299, 302: every Exception
        ELSE r

\* ------------------------------------------------------ get_audio_from_text
UrlPrefix == <<"h", "t", "t", "p", "s", ":", "/", "/", "t", "e", "x", "t", ".", "p", "o", "l", "l", "i", "n", "a", "t", "i", "o", "n", "s", ".", "a", "i", "/">>
UrlSuffix == <<"?", "m", "o", "d", "e", "l", "=", "o", "p", "e", "n", "a", "i", "-", "a", "u", "d", "i", "o", "&", "v", "o", "i", "c", "e", "=", "n", "o", "v", "a">>
Ellipsis == <<".", ".", ".">>

\* AI_AUDIO_API_URL_TEMPLATE.format(prompt=...)
FormatUrl(encoded_prompt) == UrlPrefix \o encoded_prompt \o UrlSuffix

\* len(AI_AUDIO_API_URL_TEMPLATE) - len('{prompt}')
TemplateLen == Len(UrlPrefix) + Len(UrlSuffix)

allowed_prompt_len == max_url_len - TemplateLen - UrlBuffer

\* lines 315-326: the URL requested for text; ok is FALSE when none is built
AudioUrl(text) ==
    LET url == FormatUrl(Quote(text))
    IN  IF Len(url) > max_url_len
        THEN IF allowed_prompt_len <= 0
             THEN [ok |-> FALSE, truncated |-> TRUE, url |-> <<>>]
             ELSE [ok |-> TRUE, truncated |-> TRUE,
                   url |-> FormatUrl(Quote(Prefix(text, allowed_prompt_len) \o Ellipsis))]
        ELSE [ok |-> TRUE, truncated |-> FALSE, url |-> url]

\* 'audio' in content_type.lower(); a missing header reads as ''
HasAudio(content_type) == content_type \in {"audio/mpeg", "Audio/MPEG", "audio/wav"}

\* lines 330-361: the bytes returned for the response to the GET (<<>>: None)
AudioResultAnyType(http) ==
    IF http.exc # "none" THEN <<>>
    ELSE IF http.status = HttpOk THEN http.bytes
    ELSE <<>>

AudioResult(http) ==
    IF http.exc # "none" THEN <<>>
    ELSE IF http.status = HttpOk
         THEN IF HasAudio(http.content_type) THEN http.bytes ELSE <<>>
         ELSE <<>>

\* ------------------------------------------------- on_message, pure parts
Fence == <<Backquote, Backquote, Backquote>>
Newline == <<"\n">>

\* lines 532-536: the code cleanup
CleanCode(code) ==
    LET s == Strip(code)
        lines == SplitLines(s)
        n == Len(lines)
        cut == IF StartsWith(s, Fence)
               THEN Join(IF StartsWith(lines[1], Fence) /\ lines[n] = Fence
                         THEN SubSeq(lines, 2, n - 1)
                         ELSE IF StartsWith(lines[1], Fence)
                              THEN SubSeq(lines, 2, n)
                              ELSE lines,
                         Newline)
               ELSE code
    IN  Strip(cut)

\* line 506: [response_text[i:i+1990] for i in range(0, len(response_text), 1990)]
SplitPartsShort(text) ==
    [k \in 1..((Len(text) + ChunkSize - 1) \div ChunkSize) |->
        SubSeq(text, (k - 1) * ChunkSize + 1,
               IF k * ChunkSize - 1 > Len(text) THEN Len(text) ELSE k * ChunkSize - 1)]

SplitParts(text) ==
    [k \in 1..((Len(text) + ChunkSize - 1) \div ChunkSize) |->
        SubSeq(text, (k - 1) * ChunkSize + 1,
               IF k * ChunkSize > Len(text) THEN Len(text) ELSE k * ChunkSize)]

\* ------------------------------------------------------------------ inputs
Str_hi == <<"h", "i">>
trigger_prefix == <<"m", "e", "t", "a", "r", "u", "n", "x", ",">>
\* "<@id>" and "<@!id>" of the bot, each one character of the text
Mention == "@B"
NickMention == "@!B"

MsgContents ==
    { Str_hi, trigger_prefix, <<Mention>>,
      <<"M", "e", "t", "a", "r", "u", "n", "x", ",", " ">> \o Str_hi,
      <<Mention, " ">> \o Str_hi }

Guild == [id |-> "g1", owner_id |-> "u1",
          bot_top_role |-> [id |-> "r5", position |-> 5]]

\* The authors: the bot itself, another bot, members of the guild (its
\* owner with a role, a plain member whose top role is @everyone) and a
\* user the cache holds no member for.
Person(kind, isBot, id, role, perms) ==
    [kind |-> kind, bot |-> isBot, id |-> id, top_role |-> role,
     guild_permissions |-> perms, guild |-> Guild]

Everyone == [id |-> "g1", position |-> 0]
Authors ==
    { Person("self", TRUE, "bot", Guild.bot_top_role, {"send_messages"}),
      Person("member", TRUE, "u9", Everyone, {}),
      Person("member", FALSE, "u1", [id |-> "r7", position |-> 7], {"ban_members"}),
      Person("member", FALSE, "u2", Everyone, {}),
      Person("user", FALSE, "u2", Everyone, {}) }

ChannelKinds == {"text", "dm"}

\* message.guild is None exactly in a direct-message channel, whose author
\* is never a Member
Messages ==
    { m \in [author : Authors, mentions : {"none", "bot"},
             content : MsgContents, channel : ChannelKinds] :
        m.channel = "dm" => m.author.kind # "member" }

SendResults == {"ok", "Forbidden", "HTTPException", "OSError"}
FetchResults == {"ok", "NotFound", "Forbidden", "HTTPException"}
InvokeResults == {"ok", "CommandError", "Exception"}
ExecEnvs == {"ok", "no_cog", "no_command"}

Text(pattern, n) == [i \in 1..n |-> pattern[((i - 1) % Len(pattern)) + 1]]

\* Response texts of a text or rejection payload: the lengths at and just
\* over each multiple of the chunk size and the message limit
ResponseLens ==
    {0, 1, 4200, MaxMessageLen, MaxMessageLen + 1}
    \cup { k * ChunkSize + d : k \in 1..MaxChunks, d \in {0, 1} }

Responses == { Text(<<"a", "b", "c">>, n) : n \in ResponseLens }

\* Response texts of an audio payload: the longest text whose URL fits and
\* the next, in an alphabet quote() leaves alone and in one it widens
UrlLens == {0, 1, max_url_len - TemplateLen, max_url_len - TemplateLen + 1}

AudioTexts ==
    { Text(<<"a", "b", "c">>, n) : n \in UrlLens }
    \cup { Text(<<"a", " ">>, n) : n \in UrlLens }

\* Code texts: up to MaxCodeLines lines joined by newlines
CodeLines ==
    { Fence, Fence \o <<"p", "y">>, <<"x">>, <<" ", "y">> }

RECURSIVE LineSeqs(_)
LineSeqs(n) ==
    IF n = 0 THEN {<<>>}
    ELSE LET shorter == LineSeqs(n - 1)
         IN  shorter \cup { Append(ls, l) : ls \in {x \in shorter : Len(x) = n - 1},
                                            l \in CodeLines }

Codes == { Join(ls, Newline) : ls \in LineSeqs(MaxCodeLines) }

AllKeys == {"response", "feedback", "type", "code"}
Feedback == <<"o", "k">>

Doc(keys, response, feedback, type, code) ==
    [json |-> "object", keys |-> keys,
     response |-> IF "response" \in keys THEN response ELSE NullV,
     feedback |-> IF "feedback" \in keys THEN feedback ELSE NullV,
     type |-> IF "type" \in keys THEN type ELSE [t |-> "null", s |-> ""],
     code |-> IF "code" \in keys THEN code ELSE NullV]

TypeValues ==
    { [t |-> "str", s |-> x] : x \in ValidTypes \cup {"image"} }
    \cup { [t |-> "num", s |-> ""] }

\* Contents that are JSON objects: every subset of the keys with every type
\* tag, and one field at a time of the wrong JSON type or blank
MalformedDocs ==
    { Doc(keys, StrV(Str_hi), StrV(Feedback), ty, StrV(<<"x">>)) :
        keys \in SUBSET AllKeys, ty \in TypeValues }
    \cup
    { Doc(AllKeys, f[1], f[2], ty, f[3]) :
        ty \in TypeValues,
        f \in { <<NumV, StrV(Feedback), StrV(<<"x">>)>>,
                <<StrV(Str_hi), NumV, StrV(<<"x">>)>>,
                <<StrV(Str_hi), StrV(Feedback), NumV>>,
                <<StrV(Str_hi), StrV(Feedback), StrV(<<" ", "\n">>)>> } }

TextDocs ==
    { Doc(AllKeys \ {"code"}, StrV(r), StrV(Feedback), StrV(ty), NullV) :
        r \in Responses, ty \in {"text", "rejection"} }
    \cup
    { Doc(AllKeys \ {"code"}, StrV(r), StrV(Feedback), StrV("audio"), NullV) :
        r \in AudioTexts }

CodeDocs ==
    { Doc(AllKeys, StrV(Str_hi), StrV(Feedback), StrV("code"), StrV(c)) :
        c \in Codes }

NonObjectDocs ==
    { [NoDoc EXCEPT !.json = j] : j \in {"invalid", "array", "string", "null"} }

Docs == MalformedDocs \cup TextDocs \cup CodeDocs \cup NonObjectDocs

Choice(isObject, message, content, doc) ==
    [isObject |-> isObject, message |-> message, content |-> content, doc |-> doc]

Wrapper(json, hasChoices, choices) ==
    [json |-> json, hasChoices |-> hasChoices, choices |-> choices]

GoodWrapper(doc) == Wrapper("object", TRUE, <<Choice(TRUE, "object", "string", doc)>>)

BadWrappers ==
    { Wrapper(j, FALSE, <<>>) : j \in {"invalid", "number", "array", "object"} }
    \cup { Wrapper("object", TRUE, <<>>) }
    \cup { Wrapper("object", TRUE, <<Choice(FALSE, "missing", "missing", NoDoc)>>) }
    \cup { Wrapper("object", TRUE, <<Choice(TRUE, m, "missing", NoDoc)>>) :
             m \in {"missing", "null"} }
    \cup { Wrapper("object", TRUE, <<Choice(TRUE, "object", c, NoDoc)>>) :
             c \in {"missing", "null", "empty", "number"} }

AnyDoc == Doc(AllKeys \ {"code"}, StrV(Str_hi), StrV(Feedback), StrV("text"), NullV)

Http(exc, status, body) == [exc |-> exc, status |-> status, body |-> body]

\* What the POST to the completion endpoint can come back with
CompletionOutcomes ==
    { Http("none", HttpOk, GoodWrapper(d)) : d \in Docs }
    \cup { Http("none", HttpOk, w) : w \in BadWrappers }
    \cup { Http("none", st, GoodWrapper(AnyDoc)) : st \in {500, 404, 204} }
    \cup { Http(e, HttpOk, GoodWrapper(AnyDoc)) :
             e \in {"ClientError", "TimeoutError", "RuntimeError"} }

\* What the GET to the audio endpoint can come back with
Mp3 == <<"m", "p", "3">>
AudioOutcomes ==
    { [exc |-> "none", status |-> HttpOk, content_type |-> ct, bytes |-> b] :
        ct \in {"audio/mpeg", "Audio/MPEG", "text/html", ""}, b \in {<<>>, Mp3} }
    \cup { [exc |-> "none", status |-> 500, content_type |-> "audio/mpeg", bytes |-> Mp3] }
    \cup { [exc |-> e, status |-> HttpOk, content_type |-> "audio/mpeg", bytes |-> Mp3] :
              e \in {"ClientError", "TimeoutError", "RuntimeError"} }

\* ------------------------------------------------------------------- state
VARIABLES
    pc,                    \* where each handler (one per inbound message) is
    message,               \* the message it was called with
    author,                \* message.author (replaced by the fetched member)
    user_message_content,
    user_info,             \* the snapshot, once get_user_info has run
    ai_http,               \* what the completion endpoint answered
    ai_response_data,      \* what call_ai_api returned
    audio_http,            \* what the audio endpoint answered
    parts, part_i,         \* the chunks of a long response and the next one
    code_to_execute,
    pending,               \* the message the next send emits
    trace,                 \* what the handler did, in order
    raised,                \* the exception that left on_message ("none")
    process                \* the bot's process: started, serving or exited

vars == <<pc, message, author, user_message_content, user_info, ai_http,
          ai_response_data, audio_http, parts, part_i, code_to_execute, pending,
          trace, raised, process>>

NoMessage ==
    [author |-> Person("none", FALSE, "none", Everyone, {}), mentions |-> "none",
     content |-> <<>>, channel |-> "none"]
NoInfo == [EmptyInfo EXCEPT !.empty = FALSE, !.userGuildPermissions = {"uncalled"}]
NoHttp == Http("unasked", 0, Wrapper("invalid", FALSE, <<>>))
NoResult == [kind |-> "uncalled", payload |-> NoDoc, exc |-> "none"]
NoAudio == [exc |-> "unasked", status |-> 0, content_type |-> "", bytes |-> <<>>]
Out(kind, text, reply, mention) ==
    [kind |-> kind, text |-> text, reply |-> reply, mention |-> mention]
NoOut == Out("none", <<>>, FALSE, FALSE)

\* One entry of the trace
Event(ev, kind, text, reply, mention, result) ==
    [ev |-> ev, kind |-> kind, text |-> text, reply |-> reply,
     mention |-> mention, result |-> result]
SendEvent(out, result) ==
    Event("send", out.kind, out.text, out.reply, out.mention, result)
LogEvent(kind) == Event("log", kind, <<>>, FALSE, FALSE, "ok")
\* bot.get_cog("Jishaku") and bot.get_command("jsk py"), and what they found
LookupEvent(env) == Event("lookup", "jsk py", <<>>, FALSE, FALSE, env)

\* The process: where it is, what ended it, whether a critical record was
\* logged, and the exit status once it has exited
Process(state, cause, critical, exit_status) ==
    [state |-> state, cause |-> cause, critical |-> critical,
     exit_status |-> exit_status]

Handlers == {1}

InitOf(H) ==
    /\ pc = [h \in H |-> "idle"]
    /\ message = [h \in H |-> NoMessage]
    /\ author = [h \in H |-> NoMessage.author]
    /\ user_message_content = [h \in H |-> <<>>]
    /\ user_info = [h \in H |-> NoInfo]
    /\ ai_http = [h \in H |-> NoHttp]
    /\ ai_response_data = [h \in H |-> NoResult]
    /\ audio_http = [h \in H |-> NoAudio]
    /\ parts = [h \in H |-> <<>>]
    /\ part_i = [h \in H |-> 0]
    /\ code_to_execute = [h \in H |-> <<>>]
    /\ pending = [h \in H |-> NoOut]
    /\ trace = [h \in H |-> <<>>]
    /\ raised = [h \in H |-> "none"]
    /\ process = Process("start", "none", FALSE, 0)

Init == InitOf(Handlers)

\* ------------------------------------------------- several handlers at once
\* Two messages handled at the same time.  Each handler of a pair draws from
\* a smaller world than a handler alone: one message per route, one
\* completion per response type, one failure per kind of call.
Pair == {1, 2}
Alone == Cardinality(DOMAIN pc) = 1

PairMessages ==
    { m \in Messages :
        /\ m.channel = "text" /\ m.author.kind # "self" /\ ~m.author.bot
        /\ \/ m.content = <<Mention, " ">> \o Str_hi /\ m.mentions = "bot"
              /\ m.author.id = "u1"
           \/ m.content = Str_hi /\ m.mentions = "none" /\ m.author.id = "u1"
           \/ m.content = <<"M", "e", "t", "a", "r", "u", "n", "x", ",", " ">> \o Str_hi
              /\ m.mentions = "none" /\ m.author.id = "u2" }

PairDocs ==
    { d \in TextDocs :
        \/ d.type.s = "text" /\ Len(d.response.s) \in {1, MaxMessageLen + 1}
        \/ d.type.s = "audio" /\ d.response.s = <<"a">> }
    \cup { d \in CodeDocs : d.code.s = <<"x">> }

PairCompletionOutcomes ==
    { Http("none", HttpOk, GoodWrapper(d)) : d \in PairDocs }
    \cup { Http("none", 500, GoodWrapper(AnyDoc)) }

PairAudioOutcomes ==
    { a \in AudioOutcomes :
        a.exc = "none" /\ a.content_type = "audio/mpeg" /\ a.bytes = Mp3 }

InboundMessages == IF Alone THEN Messages ELSE PairMessages
CompletionAnswers == IF Alone THEN CompletionOutcomes ELSE PairCompletionOutcomes
AudioAnswers == IF Alone THEN AudioOutcomes ELSE PairAudioOutcomes
SendAnswers == IF Alone THEN SendResults ELSE {"ok", "HTTPException"}
FetchAnswers == IF Alone THEN FetchResults ELSE {"ok", "NotFound"}
InvokeAnswers == IF Alone THEN InvokeResults ELSE {"ok", "Exception"}
ExecAnswers == IF Alone THEN ExecEnvs ELSE {"ok", "no_cog"}

PairInit == InitOf(Pair)

\* ------------------------------------------------------ on_message, steps
\* lines 420-423
is_mention(m) == m.mentions # "none"
is_trigger(m) == StartsWith(Lower(m.content), Lower(trigger_prefix))

\* lines 435-448
UserMessageContent(m) ==
    IF is_mention(m)
    THEN LET c0 == m.content
             c1 == IF m.mentions = "bot"
                   THEN Strip(RemoveFirst(Strip(RemoveFirst(c0, Mention)), NickMention))
                   ELSE c0
             c2 == Strip(RemoveFirst(c1, Mention))
         IN  Strip(RemoveFirst(c2, NickMention))
    ELSE Strip(Suffix(m.content, Len(trigger_prefix)))

\* lines 431: message.guild and the channel's class
InGuildChannel(m) == m.channel # "dm" /\ m.channel \in GuildChannelKinds

\* A pipeline that goes on only for the owner of the guild
EnterPipelineOwnerOnly(h, member, channel, tr) ==
    LET info == get_user_info(member, channel)
    IN  /\ user_info' = [user_info EXCEPT ![h] = info]
        /\ trace' = [trace EXCEPT ![h] = tr]
        /\ IF info.empty \/ ~info.isOwner
           THEN /\ pc' = [pc EXCEPT ![h] = "reply_return"]
                /\ pending' = [pending EXCEPT ![h] =
                                 Out("context_apology", <<>>, TRUE, FALSE)]
           ELSE /\ pc' = [pc EXCEPT ![h] = "call_ai"]
                /\ UNCHANGED pending

\* A pipeline that keeps one snapshot for all the handlers
EnterPipelineShared(h, member, channel, tr) ==
    LET info == get_user_info(member, channel)
    IN  /\ user_info' = [k \in DOMAIN pc |-> info]
        /\ trace' = [trace EXCEPT ![h] = tr]
        /\ IF info.empty
           THEN /\ pc' = [pc EXCEPT ![h] = "reply_return"]
                /\ pending' = [pending EXCEPT ![h] =
                                 Out("context_apology", <<>>, TRUE, FALSE)]
           ELSE /\ pc' = [pc EXCEPT ![h] = "call_ai"]
                /\ UNCHANGED pending

\* lines 473-486, to the await of call_ai_api: the snapshot, and the apology
\* when it is empty
EnterPipeline(h, member, channel, tr) ==
    LET info == get_user_info(member, channel)
    IN  /\ user_info' = [user_info EXCEPT ![h] = info]
        /\ trace' = [trace EXCEPT ![h] = tr]
        /\ IF info.empty
           THEN /\ pc' = [pc EXCEPT ![h] = "reply_return"]
                /\ pending' = [pending EXCEPT ![h] =
                                 Out("context_apology", <<>>, TRUE, FALSE)]
           ELSE /\ pc' = [pc EXCEPT ![h] = "call_ai"]
                /\ UNCHANGED pending

\* What happens to a message: "ignore", "commands", "silent" (no guild),
\* "empty" (nothing was asked), "fetch" (the author is no Member), "pipeline"
RouteNoBotCheck(m) ==
    IF ~is_mention(m) /\ ~is_trigger(m) THEN "commands"
    ELSE IF ~InGuildChannel(m) THEN "silent"
    ELSE IF UserMessageContent(m) = <<>> THEN "empty"
    ELSE IF m.author.kind # "member" THEN "fetch"
    ELSE "pipeline"

RouteNoGuildCheck(m) ==
    IF m.author.kind = "self" \/ m.author.bot THEN "ignore"
    ELSE IF ~is_mention(m) /\ ~is_trigger(m) THEN "commands"
    ELSE IF UserMessageContent(m) = <<>> THEN "empty"
    ELSE IF m.author.kind # "member" THEN "fetch"
    ELSE "pipeline"

Route(m) ==
    IF m.author.kind = "self" \/ m.author.bot THEN "ignore"
    ELSE IF ~is_mention(m) /\ ~is_trigger(m) THEN "commands"
    ELSE IF ~InGuildChannel(m) THEN "silent"
    ELSE IF UserMessageContent(m) = <<>> THEN "empty"
    ELSE IF m.author.kind # "member" THEN "fetch"
    ELSE "pipeline"

\* lines 414-456: the handler is called with m and runs to its first await
OnMessage(h) ==
    /\ pc[h] = "idle"
    /\ process.state = "running"
    /\ UNCHANGED process
    /\ \E m \in InboundMessages :
        LET route == Route(m)
        IN  /\ message' = [message EXCEPT ![h] = m]
            /\ author' = [author EXCEPT ![h] = m.author]
            /\ user_message_content' =
                 [user_message_content EXCEPT ![h] =
                    IF route \in {"empty", "fetch", "pipeline"}
                    THEN UserMessageContent(m) ELSE <<>>]
            /\ CASE route \in {"ignore", "silent"} ->
                      /\ pc' = [pc EXCEPT ![h] = "done"]
                      /\ UNCHANGED <<pending, trace, user_info>>
                 [] route = "commands" ->
                      /\ pc' = [pc EXCEPT ![h] = "commands"]
                      /\ UNCHANGED <<pending, trace, user_info>>
                 [] route = "empty" ->
                      /\ pc' = [pc EXCEPT ![h] = "reply_return"]
                      /\ pending' = [pending EXCEPT ![h] =
                                       Out("empty_prompt", <<>>, TRUE, FALSE)]
                      /\ UNCHANGED <<trace, user_info>>
                 [] route = "fetch" ->
                      /\ pc' = [pc EXCEPT ![h] = "fetch_member"]
                      /\ UNCHANGED <<pending, trace, user_info>>
                 [] OTHER -> EnterPipeline(h, m.author, m.channel, trace[h])
    /\ UNCHANGED <<ai_http, ai_response_data, audio_http, parts, part_i,
                   code_to_execute, raised>>

\* line 427: bot.process_commands(message)
ProcessCommands(h) ==
    /\ pc[h] = "commands"
    /\ UNCHANGED process
    /\ pc' = [pc EXCEPT ![h] = "done"]
    /\ trace' = [trace EXCEPT ![h] =
                   Append(@, Event("commands", "process_commands", <<>>, FALSE, FALSE, "ok"))]
    /\ UNCHANGED <<message, author, user_message_content, user_info, ai_http,
                   ai_response_data, audio_http, parts, part_i, code_to_execute, pending, raised>>

\* lines 456-471: guild.fetch_member and its three handlers
FetchMember(h) ==
    /\ pc[h] = "fetch_member"
    /\ UNCHANGED process
    /\ \E r \in FetchAnswers :
        LET ev == Event("fetch", "fetch_member", <<>>, FALSE, FALSE, r)
        IN  IF r = "ok"
            THEN LET member == [author[h] EXCEPT !.kind = "member"]
                 IN  /\ author' = [author EXCEPT ![h] = member]
                     /\ EnterPipeline(h, member, message[h].channel, Append(trace[h], ev))
            ELSE /\ pc' = [pc EXCEPT ![h] = "reply_return"]
                 /\ pending' = [pending EXCEPT ![h] =
                      Out(CASE r = "NotFound" -> "verify_apology"
                            [] r = "Forbidden" -> "verify_forbidden"
                            [] OTHER -> "verify_error", <<>>, TRUE, FALSE)]
                 /\ trace' = [trace EXCEPT ![h] = Append(@, ev)]
                 /\ UNCHANGED <<author, user_info>>
    /\ UNCHANGED <<message, user_message_content, ai_http, ai_response_data,
                   audio_http, parts, part_i, code_to_execute, raised>>

\* lines 453, 462, 466, 470, 480, 489: a reply outside the try, then return;
\* an exception of the send leaves the handler
ReplyAndReturn(h) ==
    /\ pc[h] = "reply_return"
    /\ UNCHANGED process
    /\ \E r \in SendAnswers :
        /\ trace' = [trace EXCEPT ![h] = Append(@, SendEvent(pending[h], r))]
        /\ raised' = [raised EXCEPT ![h] = IF r = "ok" THEN "none" ELSE r]
    /\ pc' = [pc EXCEPT ![h] = "done"]
    /\ pending' = [pending EXCEPT ![h] = NoOut]
    /\ UNCHANGED <<message, author, user_message_content, user_info, ai_http,
                   ai_response_data, audio_http, parts, part_i, code_to_execute>>

\* lines 493-496: ai_response_data.get(key, default); None reads as <<>>
Speechless == <<"I", " ", "s", "e", "e", "m", " ", "t", "o", " ", "b", "e", " ", "s", "p", "e", "e", "c", "h", "l", "e", "s", "s", ".">>
response_text(data) ==
    IF "response" \in data.keys THEN data.response.s ELSE Speechless
response_type(data) ==
    IF "type" \in data.keys THEN data.type.s ELSE "text"
code_of(data) ==
    IF "code" \in data.keys THEN data.code.s ELSE <<>>

\* A handler of the outer try that attempts the fallback notice whatever the
\* exception
OnErrorAlwaysFallback(h, exc, tr) ==
    /\ trace' = [trace EXCEPT ![h] = Append(tr, LogEvent(exc))]
    /\ pc' = [pc EXCEPT ![h] = "fallback"]
    /\ pending' = [pending EXCEPT ![h] =
         Out(IF exc = "HTTPException" THEN "send_error_notice"
             ELSE "internal_error_notice", <<>>, FALSE, FALSE)]

\* lines 586-601: the handlers of the outer try, for the exception exc of a
\* send of the try; tr is the trace so far
OnError(h, exc, tr) ==
    /\ trace' = [trace EXCEPT ![h] = Append(tr, LogEvent(exc))]
    /\ IF exc = "Forbidden"
       THEN /\ pc' = [pc EXCEPT ![h] = "done"]
            /\ pending' = [pending EXCEPT ![h] = NoOut]
       ELSE /\ pc' = [pc EXCEPT ![h] = "fallback"]
            /\ pending' = [pending EXCEPT ![h] =
                 Out(IF exc = "HTTPException" THEN "send_error_notice"
                     ELSE "internal_error_notice", <<>>, FALSE, FALSE)]

\* line 488: `not ai_response_data`, true of None and of an empty dict
NeverNoResult(result) == FALSE

IsNoResult(result) == result.kind = "None" \/ result.payload.keys = {}

\* line 537: `not code_to_execute`, after the cleanup
NeverEmpty(cleaned) == FALSE

code_is_empty(cleaned) == cleaned = <<>>

\* An audio branch that requests the audio before anything is sent
audio_request_first == "fetch_audio"

\* lines 513-517: the audio branch starts with the text reply ("send text
\* first"); the audio request comes after it
audio_first_step == "audio_reply"

\* lines 488-542: from the return of call_ai_api to the next await
Dispatch(h, result) ==
    LET data == result.payload
        text == response_text(data)
        type == response_type(data)
        code == code_of(data)
        cleaned == CleanCode(code)
    IN  IF IsNoResult(result)
        THEN /\ pc' = [pc EXCEPT ![h] = "reply_return"]
             /\ pending' = [pending EXCEPT ![h] = Out("ai_apology", <<>>, TRUE, FALSE)]
             /\ UNCHANGED <<parts, part_i, code_to_execute>>
        ELSE IF type \in {"text", "rejection"}
        THEN IF Len(text) > MaxMessageLen
             THEN /\ pc' = [pc EXCEPT ![h] = "send_part"]
                  /\ parts' = [parts EXCEPT ![h] = SplitParts(text)]
                  /\ part_i' = [part_i EXCEPT ![h] = 1]
                  /\ UNCHANGED <<pending, code_to_execute>>
             ELSE /\ pc' = [pc EXCEPT ![h] = "send_final"]
                  /\ pending' = [pending EXCEPT ![h] = Out("response", text, TRUE, FALSE)]
                  /\ UNCHANGED <<parts, part_i, code_to_execute>>
        ELSE IF type = "audio"
        THEN /\ pc' = [pc EXCEPT ![h] = audio_first_step]
             /\ pending' = [pending EXCEPT ![h] = Out("response", text, TRUE, FALSE)]
             /\ UNCHANGED <<parts, part_i, code_to_execute>>
        ELSE IF type = "code"
        THEN IF code = <<>>
             THEN /\ pc' = [pc EXCEPT ![h] = "send_final"]
                  /\ pending' = [pending EXCEPT ![h] =
                                   Out("code_missing_notice", text, TRUE, FALSE)]
                  /\ UNCHANGED <<parts, part_i, code_to_execute>>
             ELSE IF code_is_empty(cleaned)
             THEN /\ pc' = [pc EXCEPT ![h] = "send_final"]
                  /\ pending' = [pending EXCEPT ![h] =
                                   Out("code_empty_notice", text, TRUE, FALSE)]
                  /\ code_to_execute' = [code_to_execute EXCEPT ![h] = cleaned]
                  /\ UNCHANGED <<parts, part_i>>
             ELSE /\ pc' = [pc EXCEPT ![h] = "code_ack"]
                  /\ pending' = [pending EXCEPT ![h] = Out("response", text, TRUE, FALSE)]
                  /\ code_to_execute' = [code_to_execute EXCEPT ![h] = cleaned]
                  /\ UNCHANGED <<parts, part_i>>
        ELSE /\ pc' = [pc EXCEPT ![h] = "send_final"]
             /\ pending' = [pending EXCEPT ![h] =
                              Out("unknown_type_notice", text, TRUE, FALSE)]
             /\ UNCHANGED <<parts, part_i, code_to_execute>>

\* lines 485-499 and 209-305: the POST, call_ai_api on its answer, and the
\* dispatch on what it returned
CallAiApi(h) ==
    /\ pc[h] = "call_ai"
    /\ UNCHANGED process
    /\ \E http \in CompletionAnswers :
        LET result == call_ai_api(http)
        IN  /\ ai_http' = [ai_http EXCEPT ![h] = http]
            /\ ai_response_data' = [ai_response_data EXCEPT ![h] = result]
            /\ trace' = [trace EXCEPT ![h] =
                 Append(@, Event("http", "completion", <<>>, FALSE, FALSE, result.kind))]
            /\ IF result.kind = "raise"
               THEN /\ pc' = [pc EXCEPT ![h] = "done"]
                    /\ raised' = [raised EXCEPT ![h] = result.exc]
                    /\ UNCHANGED <<pending, parts, part_i, code_to_execute>>
               ELSE /\ Dispatch(h, result)
                    /\ UNCHANGED raised
    /\ UNCHANGED <<message, author, user_message_content, user_info, audio_http>>

\* A chunk sent as a reply only when it is the first
PartOutPlain(part, i) == Out("part", part, i = 1, i = 1)

\* line 508: message.reply(part, mention_author=False if i > 0 else True),
\* i counted from 1 here
PartOut(part, i) == Out("part", part, TRUE, i = 1)

\* lines 507-509: one chunk of a long response, and the pause after it
SendPart(h) ==
    /\ pc[h] = "send_part"
    /\ UNCHANGED process
    /\ \E r \in SendAnswers :
        LET out == PartOut(parts[h][part_i[h]], part_i[h])
            tr == Append(trace[h], SendEvent(out, r))
        IN  IF r = "ok"
            THEN /\ trace' = [trace EXCEPT ![h] = tr]
                 /\ part_i' = [part_i EXCEPT ![h] = @ + 1]
                 /\ pc' = [pc EXCEPT ![h] =
                             IF part_i[h] = Len(parts[h]) THEN "done" ELSE "send_part"]
                 /\ UNCHANGED pending
            ELSE /\ OnError(h, r, tr)
                 /\ UNCHANGED part_i
    /\ UNCHANGED <<message, author, user_message_content, user_info, ai_http,
                   ai_response_data, audio_http, parts, code_to_execute, raised>>

\* lines 511, 521, 524, 529, 539, 548, 554, 580, 584: the last send of a
\* branch of the try
SendFinal(h) ==
    /\ pc[h] = "send_final"
    /\ UNCHANGED process
    /\ \E r \in SendAnswers :
        LET tr == Append(trace[h], SendEvent(pending[h], r))
        IN  IF r = "ok"
            THEN /\ trace' = [trace EXCEPT ![h] = tr]
                 /\ pc' = [pc EXCEPT ![h] = "done"]
                 /\ pending' = [pending EXCEPT ![h] = NoOut]
            ELSE OnError(h, r, tr)
    /\ UNCHANGED <<message, author, user_message_content, user_info, ai_http,
                   ai_response_data, audio_http, parts, part_i, code_to_execute, raised>>

\* lines 591-594, 598-601: the fallback notice; an HTTPException (Forbidden
\* is one) of this send is logged, any other exception leaves the handler
Fallback(h) ==
    /\ pc[h] = "fallback"
    /\ UNCHANGED process
    /\ \E r \in SendAnswers :
        /\ trace' = [trace EXCEPT ![h] =
             IF r \in {"HTTPException", "Forbidden"}
             THEN Append(Append(@, SendEvent(pending[h], r)), LogEvent("fallback_failed"))
             ELSE Append(@, SendEvent(pending[h], r))]
        /\ raised' = [raised EXCEPT ![h] =
                        IF r \in {"ok", "HTTPException", "Forbidden"} THEN "none" ELSE r]
    /\ pc' = [pc EXCEPT ![h] = "done"]
    /\ pending' = [pending EXCEPT ![h] = NoOut]
    /\ UNCHANGED <<message, author, user_message_content, user_info, ai_http,
                   ai_response_data, audio_http, parts, part_i, code_to_execute>>

\* lines 515-517 and 308-328: the text reply, then get_audio_from_text up to
\* its GET; without text, or without a URL, it returns None at once
AudioReply(h) ==
    /\ pc[h] = "audio_reply"
    /\ UNCHANGED process
    /\ \E r \in SendAnswers :
        LET tr == Append(trace[h], SendEvent(pending[h], r))
            text == pending[h].text
        IN  IF r = "ok"
            THEN /\ trace' = [trace EXCEPT ![h] = tr]
                 /\ IF text = <<>> \/ ~AudioUrl(text).ok
                    THEN /\ pc' = [pc EXCEPT ![h] = "send_final"]
                         /\ pending' = [pending EXCEPT ![h] =
                                          Out("audio_placeholder", <<>>, FALSE, FALSE)]
                    ELSE /\ pc' = [pc EXCEPT ![h] = "fetch_audio"]
                         /\ UNCHANGED pending
            ELSE OnError(h, r, tr)
    /\ UNCHANGED <<message, author, user_message_content, user_info, ai_http,
                   ai_response_data, audio_http, parts, part_i, code_to_execute, raised>>

\* lines 330-361 and 518-524: the GET, and the choice of what is sent next
FetchAudio(h) ==
    /\ pc[h] = "fetch_audio"
    /\ UNCHANGED process
    /\ \E http \in AudioAnswers :
        LET audio_data == AudioResult(http)
            url == AudioUrl(pending[h].text).url
        IN  /\ audio_http' = [audio_http EXCEPT ![h] = http]
            /\ trace' = [trace EXCEPT ![h] =
                 Append(@, Event("http", "audio", url, FALSE, FALSE,
                                 IF audio_data # <<>> THEN "bytes" ELSE "None"))]
            /\ pending' = [pending EXCEPT ![h] =
                 IF audio_data # <<>>
                 THEN Out("metarunx_response.mp3", audio_data, FALSE, FALSE)
                 ELSE Out("audio_placeholder", <<>>, FALSE, FALSE)]
    /\ pc' = [pc EXCEPT ![h] = "send_final"]
    /\ UNCHANGED <<message, author, user_message_content, user_info, ai_http,
                   ai_response_data, parts, part_i, code_to_execute, raised>>

\* lines 542-566: the acknowledgment, then the lookup of the Jishaku cog and
\* of its "jsk py" command
CodeAck(h) ==
    /\ pc[h] = "code_ack"
    /\ UNCHANGED process
    /\ \E r \in SendAnswers, env \in ExecAnswers :
        LET tr == Append(trace[h], SendEvent(pending[h], r))
        IN  IF r = "ok"
            THEN /\ trace' = [trace EXCEPT ![h] = Append(tr, LookupEvent(env))]
                 /\ IF env = "ok"
                    THEN /\ pc' = [pc EXCEPT ![h] = "invoke"]
                         /\ pending' = [pending EXCEPT ![h] = NoOut]
                    ELSE /\ pc' = [pc EXCEPT ![h] = "send_final"]
                         /\ pending' = [pending EXCEPT ![h] =
                              Out(IF env = "no_cog" THEN "exec_unavailable_notice"
                                  ELSE "exec_command_notice", <<>>, FALSE, FALSE)]
            ELSE OnError(h, r, tr)
    /\ UNCHANGED <<message, author, user_message_content, user_info, ai_http,
                   ai_response_data, audio_http, parts, part_i, code_to_execute, raised>>

\* lines 569-580: ctx.invoke(py_command, argument=code_to_execute) and its
\* two handlers.  What the handler does when the invocation ended with r:
\* "return", or "notify" (log, then send the error notice)
AfterInvokeAlwaysNotify(r) == IF r = "ok" THEN "return" ELSE "notify"

AfterInvoke(r) == IF r = "Exception" THEN "notify" ELSE "return"

Invoke(h) ==
    /\ pc[h] = "invoke"
    /\ UNCHANGED process
    /\ \E r \in InvokeAnswers :
        LET ev == Event("invoke", "jsk py", code_to_execute[h], FALSE, FALSE, r)
            tr == IF r = "ok" THEN Append(trace[h], ev)
                  ELSE Append(Append(trace[h], ev), LogEvent(r))
        IN  /\ trace' = [trace EXCEPT ![h] = tr]
            /\ IF AfterInvoke(r) = "notify"
               THEN /\ pc' = [pc EXCEPT ![h] = "send_final"]
                    /\ pending' = [pending EXCEPT ![h] =
                                     Out("exec_error_notice", <<>>, FALSE, FALSE)]
               ELSE /\ pc' = [pc EXCEPT ![h] = "done"]
                    /\ UNCHANGED pending
    /\ UNCHANGED <<message, author, user_message_content, user_info, ai_http,
                   ai_response_data, audio_http, parts, part_i, code_to_execute, raised>>

\* ----------------------------------------------------------------- __main__
\* What starting the bot can come to: no token in the environment, a token
\* the platform refuses, privileged intents that are not enabled, any other
\* exception out of asyncio.run, or a bot that is connected and serving
StartOutcomes ==
    {"no_token", "LoginFailure", "PrivilegedIntentsRequired", "Exception", "connected"}

\* lines 605-633: sys.exit(1) without a token; the except clauses log and
\* print and fall through to the end of the script, whose exit status is 0
run_main(outcome) ==
    CASE outcome = "no_token" -> Process("exited", outcome, TRUE, 1)
      [] outcome = "connected" -> Process("running", "none", FALSE, 0)
      [] OTHER -> Process("exited", outcome, TRUE, 0)

Main ==
    /\ process.state = "start"
    /\ \E outcome \in StartOutcomes : process' = run_main(outcome)
    /\ UNCHANGED <<pc, message, author, user_message_content, user_info, ai_http,
                   ai_response_data, audio_http, parts, part_i, code_to_execute,
                   pending, trace, raised>>

Next ==
    \/ Main
    \/ \E h \in DOMAIN pc : OnMessage(h)
    \/ \E h \in DOMAIN pc : ProcessCommands(h)
    \/ \E h \in DOMAIN pc : FetchMember(h)
    \/ \E h \in DOMAIN pc : ReplyAndReturn(h)
    \/ \E h \in DOMAIN pc : CallAiApi(h)
    \/ \E h \in DOMAIN pc : SendPart(h)
    \/ \E h \in DOMAIN pc : SendFinal(h)
    \/ \E h \in DOMAIN pc : Fallback(h)
    \/ \E h \in DOMAIN pc : AudioReply(h)
    \/ \E h \in DOMAIN pc : FetchAudio(h)
    \/ \E h \in DOMAIN pc : CodeAck(h)
    \/ \E h \in DOMAIN pc : Invoke(h)

Spec == Init /\ [][Next]_vars

PairSpec == PairInit /\ [][Next]_vars

\* ------------------------------------------------------------- properties
H == DOMAIN pc

IsSend(e) == e.ev = "send"
Sends(h) == SelectSeq(trace[h], IsSend)
IsInvoke(e) == e.ev = "invoke"
Invokes(h) == SelectSeq(trace[h], IsInvoke)
IsAudioGet(e) == e.ev = "http" /\ e.kind = "audio"
IsCompletion(e) == e.ev = "http" /\ e.kind = "completion"
Called(h) == ai_response_data[h].kind # "uncalled"
Payload(h) == ai_response_data[h].payload
PayloadType(h) ==
    IF ai_response_data[h].kind = "payload" THEN Payload(h).type.s ELSE "none"
AllSendsOk(h) == \A i \in 1..Len(trace[h]) : IsSend(trace[h][i]) => trace[h][i].result = "ok"
Blank(text) == \A i \in 1..Len(text) : text[i] \in Whitespace

\* The completion outcomes the contract accepts: a 200 whose body is an
\* object with a first choice whose message content is a JSON object with
\* string response, feedback and type, the type one of the four, and a
\* non-blank string code when the type is code.
WellFormed(http) ==
    /\ http.exc = "none"
    /\ http.status = 200
    /\ http.body.json = "object"
    /\ http.body.hasChoices
    /\ http.body.choices # <<>>
    /\ LET c == http.body.choices[1]
           d == c.doc
       IN  /\ c.isObject /\ c.message = "object" /\ c.content = "string"
           /\ d.json = "object"
           /\ \A k \in {"response", "feedback", "type"} : k \in d.keys
           /\ d.response.t = "str" /\ d.feedback.t = "str" /\ d.type.t = "str"
           /\ d.type.s \in {"text", "code", "audio", "rejection"}
           /\ d.type.s = "code" =>
                "code" \in d.keys /\ d.code.t = "str" /\ ~Blank(d.code.s)

\* C1: call_ai_api returns None for every completion outcome that is not
\* well formed (a status other than 200, a network error or timeout, a body
\* or content that is no JSON or has the wrong shape, a missing or non-string
\* field, an unknown type, a code payload without usable code); it never
\* raises, and what it returns otherwise is a whole payload.
C1_FailuresReturnNone ==
    \A h \in H : Called(h) =>
        /\ ai_response_data[h].kind \in {"None", "payload"}
        /\ raised[h] \notin {"TypeError", "AttributeError", "ClientError",
                             "TimeoutError", "RuntimeError"}
        /\ ~WellFormed(ai_http[h]) => ai_response_data[h] = NoneResult
        /\ ai_response_data[h].kind = "payload" =>
             /\ \A k \in {"response", "feedback", "type"} : k \in Payload(h).keys
             /\ Payload(h).response = ai_http[h].body.choices[1].doc.response
             /\ Payload(h).type = ai_http[h].body.choices[1].doc.type

C1_Witness ==
    \E h \in H :
        /\ Called(h)
        /\ ai_http[h].exc = "none" /\ ai_http[h].status = 200
        /\ ai_http[h].body.json = "number"
        /\ ai_response_data[h] = NoneResult

\* The events of the trace after the completion request
AfterCompletion(h) ==
    LET at == {i \in 1..Len(trace[h]) : IsCompletion(trace[h][i])}
    IN  IF at = {} THEN <<>> ELSE SubSeq(trace[h], MaxOf(at) + 1, Len(trace[h]))

\* C2: whenever call_ai_api yields no result, whatever the cause, on_message
\* does one thing only: it replies once with the AI-module apology, and makes
\* no audio request, no command invocation and no other send.
C2_NoResultOneApology ==
    \A h \in H : (Called(h) /\ ai_response_data[h].kind = "None") =>
        LET after == AfterCompletion(h)
        IN  \/ /\ pc[h] = "reply_return"
               /\ after = <<>>
               /\ pending[h] = Out("ai_apology", <<>>, TRUE, FALSE)
            \/ /\ pc[h] = "done"
               /\ Len(after) = 1
               /\ after[1].ev = "send" /\ after[1].kind = "ai_apology"
               /\ after[1].reply /\ ~after[1].mention
               /\ raised[h] = (IF after[1].result = "ok" THEN "none" ELSE after[1].result)

C2_Witness ==
    \E h \in H :
        /\ pc[h] = "done"
        /\ ai_http[h].exc = "TimeoutError"
        /\ ai_response_data[h].kind = "None"
        /\ Len(Sends(h)) = 1
        /\ Sends(h)[1].kind = "ai_apology" /\ Sends(h)[1].result = "ok"

Triggering(m) == is_mention(m) \/ is_trigger(m)
Human(m) == m.author.kind # "self" /\ ~m.author.bot
FetchFailed(h) ==
    \E i \in 1..Len(trace[h]) : trace[h][i].ev = "fetch" /\ trace[h][i].result # "ok"
NoCompletionCall(h) == \A i \in 1..Len(trace[h]) : ~IsCompletion(trace[h][i])
\* A triggering message of a person whose channel is no guild channel or
\* whose author could not be fetched as a member
Unresolved(h) ==
    /\ Triggering(message[h]) /\ Human(message[h])
    /\ message[h].channel # "text" \/ FetchFailed(h)
Apologies == {"verify_apology", "verify_forbidden", "verify_error", "context_apology"}

\* C3 as stated: for every triggering message whose author or channel does
\* not resolve to a live guild member / guild channel, the snapshot builder
\* yields an empty result, the pipeline emits exactly one apology reply and
\* the completion HTTP call is never issued.
C3_AlwaysOneApology ==
    \A h \in H : (pc[h] = "done" /\ Unresolved(h)) =>
        /\ get_user_info(author[h], message[h].channel).empty
        /\ NoCompletionCall(h)
        /\ Len(Sends(h)) = 1
        /\ Sends(h)[1].kind \in Apologies /\ Sends(h)[1].reply

\* C3, amended: for such a message the snapshot builder yields an empty
\* result and the completion HTTP call is never issued; the handler never
\* gets to build the snapshot, and it replies at most once: not at all when
\* the message is outside a guild channel (it returns silently), and with
\* exactly one apology when the author cannot be fetched as a member.
C3_SilentOrOneApology ==
    \A h \in H : Unresolved(h) =>
        /\ get_user_info(author[h], message[h].channel).empty
        /\ NoCompletionCall(h)
        /\ user_info[h] = NoInfo
        /\ pc[h] = "done" =>
             IF message[h].channel # "text"
             THEN trace[h] = <<>> /\ raised[h] = "none"
             ELSE /\ Len(Sends(h)) = 1
                  /\ Sends(h)[1].kind \in Apologies /\ Sends(h)[1].reply

C3_Witness ==
    \E h \in H :
        /\ pc[h] = "done" /\ Unresolved(h)
        /\ message[h].channel = "text"
        /\ \E i \in 1..Len(trace[h]) :
             trace[h][i].ev = "fetch" /\ trace[h][i].result = "NotFound"
        /\ Len(Sends(h)) = 1
        /\ Sends(h)[1].kind = "verify_apology" /\ Sends(h)[1].result = "ok"

RECURSIVE Flatten(_)
Flatten(events) ==
    IF events = <<>> THEN <<>> ELSE Head(events).text \o Flatten(Tail(events))

\* C4: for a text or rejection payload with response s whose sends all
\* succeed: if len(s) <= 2000 exactly one message is emitted and its content
\* is s; if len(s) > 2000 exactly ceil(len(s)/1990) messages are emitted, each
\* of at most 1990 characters, and in emission order they concatenate to s.
C4_Chunking ==
    \A h \in H :
        (pc[h] = "done" /\ PayloadType(h) \in {"text", "rejection"} /\ AllSendsOk(h)) =>
            LET s == Payload(h).response.s
                sent == Sends(h)
            IN  IF Len(s) <= 2000
                THEN Len(sent) = 1 /\ sent[1].text = s
                ELSE /\ Len(sent) = (Len(s) + 1989) \div 1990
                     /\ \A i \in 1..Len(sent) : Len(sent[i].text) <= 1990
                     /\ Flatten(sent) = s

C4_Witness ==
    \E h \in H :
        /\ pc[h] = "done" /\ PayloadType(h) = "text" /\ AllSendsOk(h)
        /\ Len(Payload(h).response.s) = 4200
        /\ Len(Sends(h)) = 3

\* C5 as stated: every payload call_ai_api returns has a code field exactly
\* when its variant is code, and the code is then non-empty after whitespace
\* stripping and removal of a fenced-code wrapper.
C5_CodeNonEmptyAfterCleanup ==
    \A h \in H : ai_response_data[h].kind = "payload" =>
        /\ "code" \in Payload(h).keys <=> Payload(h).type.s = "code"
        /\ "code" \in Payload(h).keys => CleanCode(Payload(h).code.s) # <<>>

\* C5, amended: every payload call_ai_api returns has a code field exactly
\* when its variant is code, and the code is then a string that is non-empty
\* after whitespace stripping; a code that is empty once its fenced wrapper
\* is removed is still returned, and the dispatcher then sends a notice and
\* invokes nothing.
C5_CodeNonBlank ==
    \A h \in H : ai_response_data[h].kind = "payload" =>
        /\ "code" \in Payload(h).keys <=> Payload(h).type.s = "code"
        /\ "code" \in Payload(h).keys =>
             /\ Payload(h).code.t = "str" /\ ~Blank(Payload(h).code.s)
             /\ (pc[h] = "done" /\ CleanCode(Payload(h).code.s) = <<>>) =>
                  /\ Invokes(h) = <<>>
                  /\ Sends(h)[1].kind = "code_empty_notice"

C5_Witness ==
    \E h \in H :
        /\ pc[h] = "done"
        /\ ai_response_data[h].kind = "payload" /\ Payload(h).type.s = "code"
        /\ Payload(h).code.s = Fence \o Newline \o Fence
        /\ Sends(h)[1].kind = "code_empty_notice"

\* The acknowledgment: the reply that carries the response text
IsAck(h, e) ==
    /\ e.ev = "send" /\ e.kind = "response" /\ e.reply
    /\ e.text = Payload(h).response.s

\* C6: in every run of on_message the command `jsk py` is invoked at most
\* once, only for a payload of type code, only with the cleaned code, which
\* is non-empty and has no surrounding whitespace, and only after the
\* acknowledgment was sent successfully; when the cleaned code is empty the
\* handler sends a notice and never invokes the command.
C6_InvokeGuarded ==
    \A h \in H :
        /\ Len(Invokes(h)) <= 1
        /\ \A i \in 1..Len(trace[h]) : IsInvoke(trace[h][i]) =>
             /\ PayloadType(h) = "code"
             /\ trace[h][i].text = CleanCode(Payload(h).code.s)
             /\ trace[h][i].text # <<>>
             /\ Strip(trace[h][i].text) = trace[h][i].text
             /\ \E j \in 1..(i - 1) :
                  IsAck(h, trace[h][j]) /\ trace[h][j].result = "ok"
        /\ (PayloadType(h) = "code" /\ CleanCode(Payload(h).code.s) = <<>>) =>
             /\ Invokes(h) = <<>>
             /\ pc[h] = "done" =>
                  Sends(h) # <<>> /\ Sends(h)[1].kind = "code_empty_notice"

C6_Witness ==
    \E h \in H :
        /\ pc[h] = "done"
        /\ Len(Invokes(h)) = 1 /\ Invokes(h)[1].result = "ok"
        /\ Invokes(h)[1].text = <<"x">>
        /\ Payload(h).code.s = Fence \o <<"p", "y">> \o Newline \o <<"x">> \o Newline \o Fence

\* A fenced block: an opening line that starts with the fence, interior
\* lines, a closing line that is the fence
IsFencedBlock(code) ==
    LET lines == SplitLines(code)
    IN  /\ Len(lines) >= 2
        /\ StartsWith(lines[1], Fence)
        /\ lines[Len(lines)] = Fence
Interior(code) == SubSeq(SplitLines(code), 2, Len(SplitLines(code)) - 1)

\* C7: for every code that is a fenced block the cleanup removes exactly the
\* two delimiter lines: the string handed to the executor is the interior
\* lines, in their order and with their content unchanged.
C7_InteriorUnchanged ==
    \A h \in H : \A i \in 1..Len(trace[h]) :
        (IsInvoke(trace[h][i]) /\ IsFencedBlock(Payload(h).code.s)) =>
            trace[h][i].text = Join(Interior(Payload(h).code.s), Newline)

\* C8: whenever the URL templated from the text exceeds 2000 characters, the
\* URL that get_audio_from_text requests, built from the truncated text, has
\* at most 2000 characters.
C8_TruncatedUrlFits ==
    \A h \in H : \A i \in 1..Len(trace[h]) :
        (/\ IsAudioGet(trace[h][i])
         /\ Len(FormatUrl(Quote(Payload(h).response.s))) > 2000) =>
            Len(trace[h][i].text) <= 2000

AudioSucceeded(http) ==
    /\ http.exc = "none" /\ http.status = 200
    /\ HasAudio(http.content_type)
    /\ http.bytes # <<>>

\* C9: for an audio payload the response text is sent, successfully, before
\* the audio request is made; afterwards exactly one of two things is sent:
\* the bytes the Audio Client returned (which takes HTTP 200 and a content
\* type containing "audio"), as a file named metarunx_response.mp3, or the
\* placeholder notice when the client failed; the text response is out
\* before either.
C9_TextThenAudio ==
    \A h \in H : PayloadType(h) = "audio" =>
        /\ \A i \in 1..Len(trace[h]) :
             LET e == trace[h][i]
                 acked == \E j \in 1..(i - 1) :
                            IsAck(h, trace[h][j]) /\ trace[h][j].result = "ok"
             IN  /\ IsAudioGet(e) => acked
                 /\ (IsSend(e) /\ e.kind = "metarunx_response.mp3") =>
                      /\ acked /\ ~e.reply
                      /\ AudioSucceeded(audio_http[h])
                      /\ e.text = audio_http[h].bytes
                      /\ \E j \in 1..(i - 1) : IsAudioGet(trace[h][j])
                 /\ (IsSend(e) /\ e.kind = "audio_placeholder") =>
                      /\ acked /\ ~e.reply
                      /\ ~AudioSucceeded(audio_http[h])
        /\ (pc[h] = "done" /\ AllSendsOk(h)) =>
             /\ Len(Sends(h)) = 2
             /\ IsAck(h, Sends(h)[1])
             /\ Sends(h)[2].kind \in {"metarunx_response.mp3", "audio_placeholder"}

C9_Witness ==
    \E h \in H :
        /\ pc[h] = "done" /\ PayloadType(h) = "audio" /\ AllSendsOk(h)
        /\ Len(Sends(h)) = 2
        /\ Sends(h)[2].kind = "metarunx_response.mp3"
        /\ Sends(h)[2].text = Mp3

OutsideTry ==
    {"empty_prompt", "verify_apology", "verify_forbidden", "verify_error",
     "context_apology", "ai_apology"}
FallbackNotices == {"send_error_notice", "internal_error_notice"}
InTry(e) == IsSend(e) /\ e.kind \notin (OutsideTry \cup FallbackNotices)
PlatformErrors == {"Forbidden", "HTTPException"}

\* C11 as stated: whenever a send of the dispatcher fails with insufficient
\* permission or a transport error, the failure is logged, a fallback notice
\* is attempted exactly once, nothing more of the result is emitted, and a
\* failure of the fallback is only logged.
C11_FallbackAlwaysAttempted ==
    \A h \in H : \A i \in 1..Len(trace[h]) :
        (/\ pc[h] = "done" /\ InTry(trace[h][i])
         /\ trace[h][i].result \in PlatformErrors) =>
            LET tr == trace[h]
                later == SelectSeq(SubSeq(tr, i + 1, Len(tr)), IsSend)
            IN  /\ tr[i + 1] = LogEvent(tr[i].result)
                /\ Len(later) = 1
                /\ later[1].kind \in FallbackNotices
                /\ raised[h] = "none"

\* C11, amended: a failed send of the dispatcher is caught and logged and
\* nothing more of the result is emitted.  When the failure is insufficient
\* permission no fallback is attempted; for any other failure one fallback
\* notice is sent to the channel, once, and when that send fails with a
\* platform error (insufficient permission included) this is only logged.
C11_FallbackUnlessForbidden ==
    \A h \in H : \A i \in 1..Len(trace[h]) :
        (InTry(trace[h][i]) /\ trace[h][i].result # "ok") =>
            LET tr == trace[h]
                n == Len(tr)
                exc == tr[i].result
                notice == Out(IF exc = "HTTPException" THEN "send_error_notice"
                              ELSE "internal_error_notice", <<>>, FALSE, FALSE)
            IN  /\ n >= i + 1 /\ tr[i + 1] = LogEvent(exc)
                /\ \A j \in (i + 1)..n : ~InTry(tr[j]) /\ ~IsInvoke(tr[j]) /\ ~IsAudioGet(tr[j])
                /\ exc = "Forbidden" => (n = i + 1 /\ pc[h] = "done" /\ raised[h] = "none")
                /\ exc # "Forbidden" =>
                     \/ n = i + 1 /\ pc[h] = "fallback" /\ pending[h] = notice
                     \/ /\ pc[h] = "done" /\ n >= i + 2
                        /\ tr[i + 2] = SendEvent(notice, tr[i + 2].result)
                        /\ Len(SelectSeq(SubSeq(tr, i + 1, n), IsSend)) = 1
                        /\ tr[i + 2].result = "ok" => (n = i + 2 /\ raised[h] = "none")
                        /\ tr[i + 2].result \in PlatformErrors =>
                             /\ n = i + 3 /\ tr[i + 3] = LogEvent("fallback_failed")
                             /\ raised[h] = "none"

C11_Witness ==
    \E h \in H :
        /\ pc[h] = "done" /\ raised[h] = "none"
        /\ Len(Sends(h)) = 3
        /\ Sends(h)[1].kind = "part" /\ Sends(h)[1].result = "ok"
        /\ Sends(h)[2].kind = "part" /\ Sends(h)[2].result = "HTTPException"
        /\ Sends(h)[3].kind = "send_error_notice" /\ Sends(h)[3].result = "HTTPException"
        /\ trace[h][Len(trace[h])] = LogEvent("fallback_failed")

\* C12: no error leaves on_message: on every path of the handler, whatever
\* fails, the handler terminates normally.
C12_NothingEscapes ==
    \A h \in H : raised[h] = "none"

FatalStartup == {"no_token", "LoginFailure", "PrivilegedIntentsRequired"}

\* C13: each fatal startup condition (missing credential, invalid
\* credential, missing privileged intents) logs a critical message and ends
\* the process with a non-zero exit status.
C13_FatalExitsNonZero ==
    (process.state = "exited" /\ process.cause \in FatalStartup) =>
        process.critical /\ process.exit_status # 0

IsCommands(e) == e.ev = "commands"
Received(h) == pc[h] # "idle"

SnapshotBuilt(h) == user_info[h] # NoInfo /\ ~user_info[h].empty
AudioEmissions == {"metarunx_response.mp3", "audio_placeholder"}

\* C15 as stated: the stages of one message occur in the order snapshot
\* building, completion request, (optional) audio request, response
\* emission: nothing of the response is emitted before the audio request.
C15_EmissionAfterAudio ==
    \A h \in H : \A j \in 1..Len(trace[h]) : IsAudioGet(trace[h][j]) =>
        /\ SnapshotBuilt(h)
        /\ \E i \in 1..(j - 1) : IsCompletion(trace[h][i])
        /\ \A i \in 1..(j - 1) : ~InTry(trace[h][i])

\* C15, amended: the stages of one message occur in the order snapshot
\* building, completion request, response emission, each after the previous
\* one has finished; for an audio payload the response text is emitted
\* first, the audio request follows it, and after the audio request only the
\* audio file or the placeholder notice is emitted.
C15_StageOrder ==
    \A h \in H :
        LET tr == trace[h]
        IN  /\ Len(SelectSeq(tr, IsCompletion)) <= 1
            /\ Len(SelectSeq(tr, IsAudioGet)) <= 1
            /\ \A i \in 1..Len(tr) :
                 /\ IsCompletion(tr[i]) =>
                      /\ SnapshotBuilt(h)
                      /\ \A j \in 1..(i - 1) : tr[j].ev = "fetch"
                 /\ (InTry(tr[i]) \/ IsAudioGet(tr[i]) \/ IsInvoke(tr[i])) =>
                      \E j \in 1..(i - 1) :
                          IsCompletion(tr[j]) /\ tr[j].result = "payload"
                 /\ IsAudioGet(tr[i]) =>
                      /\ i > 1 /\ IsAck(h, tr[i - 1]) /\ tr[i - 1].result = "ok"
                      /\ \A j \in (i + 1)..Len(tr) :
                           InTry(tr[j]) => tr[j].kind \in AudioEmissions

C15_Witness ==
    \E h \in H :
        /\ pc[h] = "done" /\ SnapshotBuilt(h)
        /\ Len(trace[h]) = 4
        /\ IsCompletion(trace[h][1])
        /\ IsAck(h, trace[h][2]) /\ trace[h][2].result = "ok"
        /\ IsAudioGet(trace[h][3])
        /\ IsSend(trace[h][4]) /\ trace[h][4].kind = "metarunx_response.mp3"

\* A completion whose content is a JSON object with string response,
\* feedback and type
Shaped(http) ==
    /\ http.exc = "none" /\ http.status = 200
    /\ http.body.json = "object" /\ http.body.hasChoices
    /\ http.body.choices # <<>>
    /\ LET c == http.body.choices[1]
       IN  /\ c.isObject /\ c.message = "object" /\ c.content = "string"
           /\ c.doc.json = "object"
           /\ \A k \in {"response", "feedback", "type"} : k \in c.doc.keys
           /\ c.doc.response.t = "str" /\ c.doc.feedback.t = "str"
           /\ c.doc.type.t = "str"
Content(http) == http.body.choices[1].doc
FourTypes == {"text", "code", "audio", "rejection"}

\* C16: when the completion response carries a type tag outside the four
\* enumerated values, the pipeline treats it as text: it emits the response
\* string followed by a diagnostic suffix naming the unexpected tag.
C16_UnknownTypeShownAsText ==
    \A h \in H :
        (/\ pc[h] = "done" /\ Called(h) /\ AllSendsOk(h)
         /\ Shaped(ai_http[h]) /\ Content(ai_http[h]).type.s \notin FourTypes) =>
            /\ Len(Sends(h)) = 1
            /\ Sends(h)[1].kind = "unknown_type_notice"
            /\ Sends(h)[1].text = Content(ai_http[h]).response.s

\* C17 as stated: of the chunks of a split text or rejection response only
\* the first is sent as a reply to the triggering message; every later chunk
\* is a plain channel message.
C17_OnlyFirstIsReply ==
    \A h \in H : \A i \in 1..Len(Sends(h)) :
        Sends(h)[i].kind = "part" => (Sends(h)[i].reply <=> i = 1)

\* C17, amended: every chunk of a split text or rejection response is sent as
\* a reply to the triggering message; only the first chunk's reply mentions
\* the author, every later chunk is a reply without mention.
C17_OnlyFirstMentions ==
    \A h \in H : \A i \in 1..Len(Sends(h)) :
        Sends(h)[i].kind = "part" =>
            /\ PayloadType(h) \in {"text", "rejection"}
            /\ Len(Payload(h).response.s) > 2000
            /\ Sends(h)[i].reply
            /\ Sends(h)[i].mention <=> i = 1

C17_Witness ==
    \E h \in H :
        /\ pc[h] = "done" /\ AllSendsOk(h)
        /\ Len(Sends(h)) = 3
        /\ \A i \in 1..3 : Sends(h)[i].kind = "part" /\ Sends(h)[i].reply
        /\ Sends(h)[1].mention /\ ~Sends(h)[2].mention /\ ~Sends(h)[3].mention

\* A completion that is valid for a type other than code and also has a
\* code field
StrayCode(http) ==
    /\ Shaped(http)
    /\ Content(http).type.s \in {"text", "audio", "rejection"}
    /\ "code" \in Content(http).keys

\* C20: when the inner completion JSON is otherwise valid, has type text,
\* audio or rejection and also carries a code field, call_ai_api returns the
\* payload without the code field and with response, feedback and type
\* unchanged, and the dispatcher sees no code: nothing is invoked.
C20_StrayCodeRemoved ==
    \A h \in H : (Called(h) /\ StrayCode(ai_http[h])) =>
        /\ ai_response_data[h].kind = "payload"
        /\ Payload(h).keys = {"response", "feedback", "type"}
        /\ Payload(h).response = Content(ai_http[h]).response
        /\ Payload(h).feedback = Content(ai_http[h]).feedback
        /\ Payload(h).type = Content(ai_http[h]).type
        /\ code_of(Payload(h)) = <<>>
        /\ code_to_execute[h] = <<>>
        /\ Invokes(h) = <<>>

C20_Witness ==
    \E h \in H :
        /\ pc[h] = "done" /\ Called(h) /\ StrayCode(ai_http[h])
        /\ Content(ai_http[h]).type.s = "audio"
        /\ Content(ai_http[h]).code.t = "str"
        /\ ai_response_data[h].kind = "payload"
        /\ Len(Sends(h)) = 2 /\ AllSendsOk(h)

\* What a handler did once it had its snapshot, and what it was answered
IsFetch(e) == e.ev = "fetch"
NotFetch(e) == ~IsFetch(e)
Pipeline(h) == SelectSeq(trace[h], NotFetch)
Answers(events) == [i \in 1..Len(events) |-> events[i].result]

\* C18: local control flow does not depend on what the snapshot holds: two
\* handlers with non-empty snapshots, the same user text, the same
\* completion response and the same answers to what they did so far have
\* done the same things and are about to do the same thing, as to the
\* invocation of the code-execution command and its code too.
C18_SnapshotIndependent ==
    \A a, b \in H :
        (/\ SnapshotBuilt(a) /\ SnapshotBuilt(b)
         /\ user_message_content[a] = user_message_content[b]
         /\ ai_http[a] = ai_http[b]
         /\ audio_http[a] = audio_http[b]
         /\ Answers(Pipeline(a)) = Answers(Pipeline(b))) =>
            /\ Pipeline(a) = Pipeline(b)
            /\ pc[a] = pc[b]
            /\ pending[a] = pending[b]
            /\ ai_response_data[a] = ai_response_data[b]
            /\ code_to_execute[a] = code_to_execute[b]
            /\ raised[a] = raised[b]

C18_Witness ==
    /\ \A h \in Pair : h \in H /\ pc[h] = "done" /\ SnapshotBuilt(h)
    /\ user_info[1].isOwner /\ ~user_info[2].isOwner
    /\ user_info[1].userGuildPermissions # user_info[2].userGuildPermissions
    /\ user_info[1].userTopRolePosition # user_info[2].userTopRolePosition
    /\ \A h \in Pair : Len(Invokes(h)) = 1 /\ Invokes(h)[1].text = <<"x">>
    /\ Pipeline(1) = Pipeline(2)

\* All that one handler holds
Local(h) ==
    <<pc[h], message[h], author[h], user_message_content[h], user_info[h],
      ai_http[h], ai_response_data[h], audio_http[h], parts[h], part_i[h],
      code_to_execute[h], pending[h], trace[h], raised[h]>>

\* A step that changes what at most one handler holds
OneHandlerSteps == Cardinality({h \in H : Local(h)' # Local(h)}) <= 1

\* C19: when the handlers of several messages are interleaved at their
\* suspension points, each does what it would do alone: every step changes
\* the state of one handler only, each handler uses the snapshot of its own
\* author, and what a handler has done is determined by its own message and
\* the answers it got itself, wherever the other handler is.
C19_HandlersIndependent ==
    /\ [][OneHandlerSteps]_vars
    /\ [](\A h \in H :
            user_info[h] # NoInfo =>
                user_info[h] = get_user_info(author[h], message[h].channel))
    /\ [](\A a, b \in H :
            (/\ message[a] = message[b]
             /\ ai_http[a] = ai_http[b]
             /\ audio_http[a] = audio_http[b]
             /\ Answers(trace[a]) = Answers(trace[b])) => Local(a) = Local(b))

C19_Witness ==
    /\ H = Pair
    /\ pc[1] = "send_part" /\ part_i[1] = 2
    /\ pc[2] = "fetch_audio"
    /\ message[1] # message[2]
    /\ user_info[1] # user_info[2]

====
